---- MODULE Spec2Model ----
(***************************************************************************)
(* A model of vinca_core: the Card handle (card.py) and the Cardlist query *)
(* builder (cardlist.py) over the SQLite store they read and write.        *)
(*                                                                         *)
(* The store is three append-only event tables (edits, reviews, tag_edits) *)
(* and a media table.  The SQL schema (the tables' defaults and the views  *)
(* `cards` and `tags` that project the current state) is not part of the   *)
(* Python sources; it is modelled from the written specification and the   *)
(* definitions concerned say so.                                           *)
(***************************************************************************)
EXTENDS Integers, Sequences, FiniteSets, TLC

VARIABLES
    edits,      \* table edits: sequence of rows [card_id, date, cols]
    reviews,    \* table reviews: sequence of rows
    tag_edits,  \* table tag_edits: sequence of rows [card_id, tag, active]
    media,      \* table media: sequence of rows [id, content]
    handles,    \* the Card objects alive in the session: [id, _dict]
    views,      \* the Cardlist objects alive in the session
    decks,      \* the named decks: [view, meta], the SQL views and the rows of table decks
    now,        \* the clock, julianday.now()
    wrote,      \* history: per handle, the value last written to each key
    uploads,    \* history: the (content, id) of every _upload_media call
    pc,         \* the processes sharing the store: each one's position
    loc,        \* the processes sharing the store: each one's local variables
    unique      \* schema: whether media.content carries a UNIQUE constraint

vars == <<edits, reviews, tag_edits, media, handles, views, decks, now, wrote,
          uploads, pc, loc, unique>>

-----------------------------------------------------------------------------
(* Bounds of the model. *)

MaxEdits == 3
MaxCards == 2
MaxHandles == 2
MaxNow == 2
MaxMedia == 2
MaxViews == 2
MaxReviews == 1
MaxTagEdits == 3
\* In the specification of all operations together: the rows and objects
\* that may exist before a further call is made.
MaxTotal == 8
\* The clock counts fractions of a day: TicksPerDay ticks make one day.
TicksPerDay == 2

-----------------------------------------------------------------------------
(* Python / SQL values.  A value carries its type as the name of its one   *)
(* field, so that None, numbers, strings and JulianDate never coincide.    *)

None == [none |-> TRUE]
IntV(n) == [int |-> n]
StrV(s) == [str |-> s]
BoolV(b) == [bool |-> b]
ListV(S) == [list |-> S]

IsNone(v) == DOMAIN v = {"none"}
IsInt(v) == DOMAIN v = {"int"}
IsJD(v) == DOMAIN v = {"jd"}
IsNum(v) == IsInt(v) \/ IsJD(v)

\* JulianDate(value): a float subclass wrapping the stored number.
JulianDate(v) == IF IsInt(v) THEN [jd |-> v.int] ELSE v

\* The number a numeric value stands for.
Num(v) == IF IsJD(v) THEN v.jd ELSE v.int

\* Python's ==: a JulianDate compares as the float it wraps.
PyEq(a, b) == IF IsNum(a) /\ IsNum(b) THEN Num(a) = Num(b) ELSE a = b

\* Python truthiness of an optional number (the `date or ...`, `if date:`).
Truthy(v) == ~IsNone(v) /\ (IsNum(v) => Num(v) # 0)

\* dict[key] = value
DictSet(d, k, v) == (k :> v) @@ d

\* dict.update(other)
DictUpdate(d, other) == other @@ d

EmptyDict == [k \in {} |-> None]

-----------------------------------------------------------------------------
(* card.py: the field tables of class Card. *)

_misc_fields == {"card_type", "visibility"}
_date_fields == {"create_date", "due_date", "last_edit_date", "last_review_date"}
_text_fields == {"front_text", "back_text", "extra", "hint", "source", "spelltest"}
_media_id_fields == {"front_image_id", "back_image_id", "front_audio_id",
                     "back_audio_id", "diagram_id", "diagram_data_id"}
_time_fields == {"edit_seconds", "review_seconds", "total_seconds"}
_id_fields == {"id"} \cup _media_id_fields
_int_fields == _id_fields \cup _time_fields
_str_fields == _misc_fields \cup _text_fields
_concrete_fields == _date_fields \cup _int_fields \cup _str_fields
_virtual_media_fields == {"front_image", "back_image", "front_audio",
                          "back_audio", "diagram", "diagram_data"}
_fields == _concrete_fields \cup _virtual_media_fields
_editable_fields == {"front_image_id", "back_image_id", "front_audio_id",
                     "back_audio_id", "diagram_id", "diagram_data_id",
                     "front_text", "back_text", "source", "extra", "hint",
                     "spelltest", "card_type", "visibility", "due_date"}

\* key + '_id'
IdFieldOf(key) ==
    CASE key = "front_image" -> "front_image_id"
      [] key = "back_image" -> "back_image_id"
      [] key = "front_audio" -> "front_audio_id"
      [] key = "back_audio" -> "back_audio_id"
      [] key = "diagram" -> "diagram_id"
      [] key = "diagram_data" -> "diagram_data_id"

-----------------------------------------------------------------------------
(* The store.  A row of edits is [card_id, date, cols]: cols holds the     *)
(* attribute columns the INSERT gave a non-NULL value (a column an INSERT  *)
(* leaves out, or sets to NULL, is NULL in the row).                       *)

\* Columns of the table edits besides card_id, date and seconds.
EditCols == _editable_fields

\* The columns of `cols` that are not NULL.
NonNull(cols) == [k \in {x \in DOMAIN cols : ~IsNone(cols[x])} |-> cols[k]]

\* INSERT INTO edits (card_id, date, <cols>) VALUES (...)
InsertEdit(E, c, date, cols) ==
    Append(E, [card_id |-> c, date |-> date, cols |-> NonNull(cols)])

CardIds == {edits[i].card_id : i \in DOMAIN edits}

\* The card_id that INSERT INTO edits DEFAULT VALUES gives the new row.
NewCardId == IF CardIds = {} THEN 1
             ELSE (CHOOSE m \in CardIds : \A c \in CardIds : c <= m) + 1

\* The edits of card c that set column k.
EditsSetting(c, k) ==
    {i \in DOMAIN edits : edits[i].card_id = c /\ k \in DOMAIN edits[i].cols}

EditsOf(c) == {i \in DOMAIN edits : edits[i].card_id = c}

\* The newest of the rows I: the greatest timestamp, the later-appended row
\* among equal timestamps.
Newest(I) ==
    CHOOSE i \in I : \A j \in I :
        \/ edits[j].date < edits[i].date
        \/ edits[j].date = edits[i].date /\ j <= i

\* The view cards, column k of the row of card c.
CardsCol(c, k) ==
    LET I == EditsSetting(c, k)
        first == CHOOSE i \in EditsOf(c) : \A j \in EditsOf(c) : i <= j
    IN  CASE k = "id" -> IntV(c)
          [] k = "create_date" -> IntV(edits[first].date)
          [] k = "last_edit_date" -> IntV(edits[Newest(EditsOf(c))].date)
          [] k = "due_date" ->
                IF I = {} THEN IntV(edits[first].date)
                ELSE edits[Newest(I)].cols[k]
          [] k = "visibility" ->
                IF I = {} THEN StrV("visible") ELSE edits[Newest(I)].cols[k]
          [] OTHER -> IF I = {} THEN None ELSE edits[Newest(I)].cols[k]

\* SELECT id FROM media WHERE content = ? (the rows' ids)
MediaIdsOf(M, content) == {M[i].id : i \in {j \in DOMAIN M : M[j].content = content}}

\* The id INSERT INTO media (content) gives the new row.
NewMediaId(M) ==
    IF M = <<>> THEN 1
    ELSE (CHOOSE m \in {M[i].id : i \in DOMAIN M} :
              \A i \in DOMAIN M : M[i].id <= m) + 1

-----------------------------------------------------------------------------
(* card.py: Card._upload_media, one call run to its end. *)

\* A faulty variant, to try the properties on:
\* _upload_media without its lookup: every call inserts a row.
BadUploadMedia(M, content) ==
    [media |-> Append(M, [id |-> NewMediaId(M), content |-> content]),
     id |-> NewMediaId(M)]

\* [media |-> the table after the call, id |-> the id returned]
_upload_media(M, content) ==
    LET found == MediaIdsOf(M, content)
    IN  IF found # {}
        THEN [media |-> M, id |-> CHOOSE i \in found : \A j \in found : i <= j]
        ELSE [media |-> Append(M, [id |-> NewMediaId(M), content |-> content]),
              id |-> NewMediaId(M)]

-----------------------------------------------------------------------------
(* card.py: the methods of a Card object card = [id, _dict].  Each method  *)
(* is an operator giving what the call leaves behind: the object's _dict,  *)
(* the tables it writes, and ret, the value returned or exception raised.  *)

Raise(name) == [exc |-> name]
IsExc(r) == DOMAIN r = {"exc"}

\* Card.__init__: the object the constructor is written to build.  As the
\* class stands, `__setattr__ = __setitem__` also takes the constructor's own
\* `self._dict = ...`, and the assertion `key != 'id' and key in _fields`
\* fails on it: Card(id, cursor) raises AssertionError.  The methods are
\* modelled on the object as the constructor means it, since everything the
\* class does is defined on that object.
Card(card_id) == [id |-> card_id, _dict |-> ("id" :> IntV(card_id))]

\* Card._get_virtual_media_field: the content is fetched into a local and
\* the method ends without a return statement, so the call yields None; the
\* fetch itself fails when the media row is missing.
_get_virtual_media_field(card, key) ==
    LET media_id == CardsCol(card.id, IdFieldOf(key))
    IN  IF ~Truthy(media_id) THEN None
        ELSE IF \A i \in DOMAIN media : media[i].id # Num(media_id)
             THEN Raise("TypeError")
             ELSE None

\* A faulty variant, to try the properties on:
\* __getitem__ without the projection: an uncached read yields None.
BadCard__getitem__(card, key) ==
    IF key \notin _fields
    THEN [_dict |-> card._dict, ret |-> Raise("KeyError")]
    ELSE IF key \in DOMAIN card._dict
    THEN [_dict |-> card._dict, ret |-> card._dict[key]]
    ELSE [_dict |-> DictSet(card._dict, key, None), ret |-> None]

\* Card.__getitem__
Card__getitem__(card, key) ==
    IF key \notin _fields
    THEN [_dict |-> card._dict, ret |-> Raise("KeyError")]
    ELSE IF key \in DOMAIN card._dict
    THEN [_dict |-> card._dict, ret |-> card._dict[key]]
    ELSE LET raw == IF key \in _virtual_media_fields
                    THEN _get_virtual_media_field(card, key)
                    ELSE CardsCol(card.id, key)
             value == IF key \in _date_fields THEN JulianDate(raw) ELSE raw
         IN  IF IsExc(raw) THEN [_dict |-> card._dict, ret |-> raw]
             ELSE [_dict |-> DictSet(card._dict, key, value), ret |-> value]

\* Card._set_virtual_media_field
_set_virtual_media_field(card, key, value) ==
    LET up == _upload_media(media, value)
    IN  [media |-> up.media,
         edits |-> InsertEdit(edits, card.id, now, IdFieldOf(key) :> IntV(up.id))]

\* A faulty variant, to try the properties on:
\* __setitem__ that leaves the object's _dict alone.
BadCard__setitem__(card, key, value) ==
    IF key = "id" \/ key \notin _fields
    THEN [_dict |-> card._dict, edits |-> edits, media |-> media,
          ret |-> Raise("AssertionError")]
    ELSE IF key \in _virtual_media_fields
    THEN LET w == _set_virtual_media_field(card, key, value)
         IN  [_dict |-> card._dict, edits |-> w.edits, media |-> w.media,
              ret |-> None]
    ELSE IF key \in EditCols
    THEN [_dict |-> card._dict, edits |-> InsertEdit(edits, card.id, now, key :> value),
          media |-> media, ret |-> None]
    ELSE [_dict |-> card._dict, edits |-> edits, media |-> media,
          ret |-> Raise("OperationalError")]

\* Card.__setitem__ (also __setattr__)
Card__setitem__(card, key, value) ==
    IF key = "id" \/ key \notin _fields
    THEN [_dict |-> card._dict, edits |-> edits, media |-> media,
          ret |-> Raise("AssertionError")]
    ELSE LET d1 == DictSet(card._dict, key, value)
         IN  IF key \in _virtual_media_fields
             THEN LET w == _set_virtual_media_field(card, key, value)
                  IN  [_dict |-> d1, edits |-> w.edits, media |-> w.media,
                       ret |-> None]
             ELSE IF key \in EditCols
             THEN [_dict |-> d1,
                   edits |-> InsertEdit(edits, card.id, now, key :> value),
                   media |-> media, ret |-> None]
             \* no such column in edits: the INSERT fails, _dict is already set
             ELSE [_dict |-> d1, edits |-> edits, media |-> media,
                   ret |-> Raise("OperationalError")]

\* Card._update(d, date, seconds)
Card_update(card, d, date, seconds) ==
    IF \E k \in DOMAIN d : k \notin _editable_fields
    THEN [_dict |-> card._dict, edits |-> edits, ret |-> Raise("AssertionError")]
    ELSE IF DOMAIN d = {}
    THEN [_dict |-> card._dict, edits |-> edits, ret |-> None]
    ELSE LET d1 == IF Truthy(date) THEN DictSet(d, "date", date) ELSE d
             d2 == IF seconds # 0 THEN DictSet(d1, "seconds", IntV(seconds)) ELSE d1
             d3 == DictSet(d2, "card_id", IntV(card.id))
             stamp == IF Truthy(date) THEN Num(date) ELSE now
             cols == [k \in DOMAIN d3 \ {"date", "card_id"} |-> d3[k]]
         IN  [_dict |-> DictUpdate(card._dict, d3),
              edits |-> InsertEdit(edits, card.id, stamp, cols),
              ret |-> None]

\* Card._change_visibility(visibility, date): card.py does not import the
\* module julianday, so `date or julianday.now()` raises NameError whenever
\* date is None or 0.
Card_change_visibility(card, visibility, date) ==
    IF visibility \notin {"deleted", "visible", "purged"}
    THEN [edits |-> edits, ret |-> Raise("AssertionError")]
    ELSE IF ~Truthy(date)
    THEN [edits |-> edits, ret |-> Raise("NameError")]
    ELSE [edits |-> InsertEdit(edits, card.id, Num(date),
                               "visibility" :> StrV(visibility)),
          ret |-> None]

\* Card._log_review(grade, seconds, new_due_date, date)
Card_log_review(card, grade, seconds, new_due_date, date) ==
    Append(reviews, [card_id |-> card.id, seconds |-> seconds, grade |-> grade,
                     new_due_date |-> new_due_date,
                     date |-> IF Truthy(date) THEN Num(date) ELSE now])

\* A faulty variant, to try the properties on:
\* _schedule that keeps the new due date in the object and writes no edit.
BadCard_schedule(card, new_due_date) ==
    [_dict |-> DictSet(card._dict, "due_date", new_due_date), edits |-> edits,
     ret |-> new_due_date]

\* Card._schedule: history reads create_date (and caches it), the scheduler
\* (not part of this package) gives new_due_date, which is assigned to
\* due_date; the method returns self.due_date.
Card_schedule(card, new_due_date) ==
    LET g == Card__getitem__(card, "create_date")
        w == Card__setitem__([card EXCEPT !._dict = g._dict], "due_date", new_due_date)
    IN  [_dict |-> w._dict, edits |-> w.edits,
         ret |-> Card__getitem__([card EXCEPT !._dict = w._dict], "due_date").ret]

\* Card.is_due: due_date, read through the object, against today(), the
\* day now lies in (julianday.today is not part of this package).
Card_is_due(card) ==
    LET g == Card__getitem__(card, "due_date")
    IN  [_dict |-> g._dict,
         ret |-> IF IsExc(g.ret) THEN g.ret
                 ELSE BoolV(Num(g.ret) <= now - (now % TicksPerDay))]

\* A faulty variant, to try the properties on:
\* add_tag writing an inactive record.
BadCard_add_tag(card, tag) ==
    Append(tag_edits, [card_id |-> card.id, tag |-> tag, active |-> 0])

\* Card.add_tag: the column active is left to its default, 1.
Card_add_tag(card, tag) ==
    Append(tag_edits, [card_id |-> card.id, tag |-> tag, active |-> 1])

\* A faulty variant, to try the properties on:
\* remove_tag deleting the tag's records instead of appending one.
BadCard_remove_tag(card, tag) ==
    SelectSeq(tag_edits, LAMBDA r : ~(r.card_id = card.id /\ r.tag = tag))

\* Card.remove_tag
Card_remove_tag(card, tag) ==
    Append(tag_edits, [card_id |-> card.id, tag |-> tag, active |-> 0])

\* The view tags: the (card, tag) pairs whose last tag edit is active.
TagsView(c) ==
    {t \in {tag_edits[i].tag : i \in DOMAIN tag_edits} :
        LET I == {i \in DOMAIN tag_edits :
                     tag_edits[i].card_id = c /\ tag_edits[i].tag = t}
        IN  I # {} /\ tag_edits[CHOOSE i \in I : \A j \in I : j <= i].active = 1}

\* Card.tags
Card_tags(card) == TagsView(card.id)

-----------------------------------------------------------------------------
(* cardlist.py: a Cardlist object is [_conditions, _ORDER_BY, deck,        *)
(* filters].  A condition is one SQL conjunct of the WHERE clause, kept as *)
(* [neg, kind, arg]: the text `NOT ` or nothing, then the predicate.  An   *)
(* ordering clause is [expr, dir].                                         *)

Cond(kind, arg) == [neg |-> FALSE, kind |-> kind, arg |-> arg]

\* Cardlist.__init__: the default conditions and ORDER_BY, deck or 'cards'.
DefaultConditions == <<Cond("visibility != purged", None)>>
DefaultOrderBy == [expr |-> "max(last_edit_date, last_review_date)", dir |-> " DESC"]

Cardlist(conditions, ORDER_BY, deck) ==
    [_conditions |-> conditions, _ORDER_BY |-> ORDER_BY,
     deck |-> IF IsNone(deck) THEN "cards" ELSE deck.str,
     filters |-> EmptyDict]

\* A faulty variant, to try the properties on:
\* _copy that drops the conditions.
BadCardlist_copy(self) == Cardlist(DefaultConditions, self._ORDER_BY, None)

\* Cardlist._copy: the deck is not passed on.
Cardlist_copy(self) == Cardlist(self._conditions, self._ORDER_BY, None)

\* julianday.now() and int(NOW)
NOW == now
TODAY == now - (now % TicksPerDay)

\* SQL's three truth values.
SqlNot(b) == CASE b = "T" -> "F" [] b = "F" -> "T" [] OTHER -> "N"
SqlBool(b) == IF b THEN "T" ELSE "F"

\* x LIKE '%s%' over the model's texts, none of which is part of another.
Like(text, s) ==
    IF IsNone(text) THEN "N" ELSE SqlBool(s = "" \/ text.str = s)

SqlOr(a, b) ==
    IF a = "T" \/ b = "T" THEN "T" ELSE IF a = "N" \/ b = "N" THEN "N" ELSE "F"

\* One predicate of the WHERE clause on the row of card c.
EvalPred(kind, arg, c) ==
    CASE kind = "visibility != purged" ->
            SqlBool(CardsCol(c, "visibility") # StrV("purged"))
      [] kind = "search" ->
            SqlOr(Like(CardsCol(c, "front_text"), arg.str),
                  Like(CardsCol(c, "back_text"), arg.str))
      [] kind = "tag" -> SqlBool(arg.str \in TagsView(c))
      [] kind = "tags_yes" -> SqlBool(TagsView(c) \cap arg.list # {})
      [] kind = "tags_no" -> SqlBool(TagsView(c) \ arg.list # {})
      [] kind = "create_date >" -> SqlBool(Num(CardsCol(c, "create_date")) > arg.int)
      [] kind = "create_date <" -> SqlBool(Num(CardsCol(c, "create_date")) < arg.int)
      [] kind = "due_date >" -> SqlBool(Num(CardsCol(c, "due_date")) > arg.int)
      [] kind = "due_date <" -> SqlBool(Num(CardsCol(c, "due_date")) < arg.int)
      [] kind = "visibility = deleted" ->
            SqlBool(CardsCol(c, "visibility") = StrV("deleted"))
      [] kind = "card_type" ->
            IF IsNone(CardsCol(c, "card_type")) THEN "N"
            ELSE SqlBool(CardsCol(c, "card_type") = arg)
      [] kind = "due_date = create_date" ->
            SqlBool(Num(CardsCol(c, "due_date")) = Num(CardsCol(c, "create_date")))
      [] kind = "images" ->
            SqlBool(~IsNone(CardsCol(c, "front_image_id"))
                    \/ ~IsNone(CardsCol(c, "back_image_id")))
      [] kind = "audio" ->
            SqlBool(~IsNone(CardsCol(c, "front_audio_id"))
                    \/ ~IsNone(CardsCol(c, "back_audio_id")))

EvalCond(cond, c) ==
    IF cond.neg THEN SqlNot(EvalPred(cond.kind, cond.arg, c))
    ELSE EvalPred(cond.kind, cond.arg, c)

\* The rows of the view or table `deck`: a deck is the SQL view
\* SELECT * FROM cards WHERE <the conditions it was made from>.
DeckRows(deck) ==
    IF deck = "cards" THEN CardIds
    ELSE IF deck \notin DOMAIN decks.view THEN {}
    ELSE {c \in CardIds :
            \A i \in DOMAIN decks.view[deck] :
                EvalCond(decks.view[deck][i], c) = "T"}

\* Cardlist._WHERE: the conditions joined by AND, on the row of card c.
_WHERE(self, c) ==
    \A i \in DOMAIN self._conditions : EvalCond(self._conditions[i], c) = "T"

\* The rows SELECT ... FROM {deck} WHERE ... yields.
Matching(self) == {c \in DeckRows(self.deck) : _WHERE(self, c)}

\* Cardlist.__len__
Cardlist__len__(self) == Cardinality(Matching(self))

\* filter: one entry of cleaned_dates.  A number is a count of days from
\* today; a string other than '' is taken here to be unparseable (the model
\* passes no ISO dates).
CleanDate(value) ==
    IF IsNone(value) \/ value = StrV("") THEN value
    ELSE IF IsInt(value) THEN IntV(TODAY + value.int * TicksPerDay)
    ELSE Raise("ValueError")

\* filter: the table parameters_conditions, in its order.
ParametersConditions(a) ==
    << <<a.search, Cond("search", a.search)>>,
       <<a.tag, Cond("tag", a.tag)>>,
       <<a.tags_yes, Cond("tags_yes", IF IsNone(a.tags_yes) THEN ListV({}) ELSE a.tags_yes)>>,
       <<a.tags_no, Cond("tags_no", IF IsNone(a.tags_no) THEN ListV({}) ELSE a.tags_no)>>,
       <<CleanDate(a.created_after), Cond("create_date >", CleanDate(a.created_after))>>,
       <<CleanDate(a.created_before), Cond("create_date <", CleanDate(a.created_before))>>,
       <<CleanDate(a.due_after), Cond("due_date >", CleanDate(a.due_after))>>,
       <<CleanDate(a.due_before), Cond("due_date <", CleanDate(a.due_before))>>,
       <<a.due, Cond("due_date <", IntV(NOW))>>,
       <<a.deleted, Cond("visibility = deleted", None)>>,
       <<a.card_type, Cond("card_type", a.card_type)>>,
       <<a.new, Cond("due_date = create_date", None)>>,
       <<a.images, Cond("images", None)>>,
       <<a.audio, Cond("audio", None)>> >>

\* The usage text filter returns instead of a Cardlist.
FilterUsage == StrV("Examples: ...")

Supplied(p) == ~IsNone(p) /\ p # StrV("any") /\ p # StrV("")

MapConds(rows, invert) ==
    [i \in DOMAIN rows |->
        [rows[i][2] EXCEPT !.neg = (invert # (rows[i][1] = BoolV(FALSE)))]]

\* Cardlist.filter(**a): self after the call and what the call returns.
Cardlist_filter(self, a) ==
    LET self1 == [self EXCEPT !.filters = DictUpdate(self.filters, a)]
        table == ParametersConditions(a)
        dates == {CleanDate(a.created_after), CleanDate(a.created_before),
                  CleanDate(a.due_after), CleanDate(a.due_before)}
    IN  IF \E d \in dates : IsExc(d)
        THEN [self |-> self1, ret |-> Raise("ValueError")]
        ELSE IF a.require_parameters /\ \A i \in DOMAIN table : IsNone(table[i][1])
        THEN [self |-> self1, ret |-> FilterUsage]
        ELSE LET new_cardlist == Cardlist_copy(self1)
                 added == MapConds(SelectSeq(table, LAMBDA r : Supplied(r[1])), a.invert)
             IN  [self |-> self1,
                  ret |-> [new_cardlist EXCEPT !._conditions = @ \o added]]

\* sort: crit_dict
crit_dict ==
    [overdue |-> "due_date", old |-> "create_date", random |-> "RANDOM()",
     time |-> "(edit_seconds + review_seconds)",
     recent |-> "max(last_review_date, last_edit_date)"]
    @@ ("total time" :> "(edit_seconds + review_seconds)")

SortUsage == StrV("supply a criterion: ...")

\* Cardlist.sort(criterion, reverse)
Cardlist_sort(self, criterion, reverse) ==
    IF IsNone(criterion) \/ criterion.str \notin DOMAIN crit_dict
    THEN SortUsage
    ELSE LET new_cardlist == Cardlist_copy(self)
             rev == (reverse # (criterion.str \in {"recent", "time", "total time"}))
         IN  [new_cardlist EXCEPT
                !._ORDER_BY = [expr |-> crit_dict[criterion.str],
                               dir |-> IF rev THEN " DESC" ELSE " ASC"]]

-----------------------------------------------------------------------------
(* Ordering and indexing. *)

RECURSIVE SumSeconds(_, _)
SumSeconds(rows, I) ==
    IF I = {} THEN 0
    ELSE LET i == CHOOSE x \in I : TRUE
         IN  rows[i] + SumSeconds(rows, I \ {i})

\* The view cards: last_review_date (NULL, here -1, before the first review)
\* and the seconds spent editing and reviewing.
LastReviewDate(c) ==
    LET I == {i \in DOMAIN reviews : reviews[i].card_id = c}
    IN  IF I = {} THEN -1
        ELSE reviews[CHOOSE i \in I : \A j \in I : j <= i].date

EditSeconds(c) ==
    SumSeconds([i \in DOMAIN edits |->
                  IF "seconds" \in DOMAIN edits[i].cols
                  THEN edits[i].cols["seconds"].int ELSE 0], EditsOf(c))

ReviewSeconds(c) ==
    SumSeconds([i \in DOMAIN reviews |-> reviews[i].seconds],
               {i \in DOMAIN reviews : reviews[i].card_id = c})

\* The value the ORDER BY expression takes on card c; NULL sorts below every
\* number and is -1 here.  RANDOM() leaves every order possible: no card is
\* before another.
SortKey(expr, c) ==
    CASE expr = "due_date" -> Num(CardsCol(c, "due_date"))
      [] expr = "create_date" -> Num(CardsCol(c, "create_date"))
      [] expr = "RANDOM()" -> 0
      [] expr = "(edit_seconds + review_seconds)" -> EditSeconds(c) + ReviewSeconds(c)
      [] OTHER ->  \* max(last_edit_date, last_review_date) in either order
            IF LastReviewDate(c) = -1 THEN -1
            ELSE IF LastReviewDate(c) > Num(CardsCol(c, "last_edit_date"))
                 THEN LastReviewDate(c)
                 ELSE Num(CardsCol(c, "last_edit_date"))

\* Card a comes strictly before card b under the ordering clause.
Before(ORDER_BY, a, b) ==
    IF ORDER_BY.dir = " DESC"
    THEN SortKey(ORDER_BY.expr, a) > SortKey(ORDER_BY.expr, b)
    ELSE SortKey(ORDER_BY.expr, a) < SortKey(ORDER_BY.expr, b)

\* The ids SELECT ... LIMIT 1 OFFSET k can yield: cards of equal rank come in
\* an order the query does not fix.  A negative OFFSET counts as 0.
RowsAtOffset(self, k) ==
    LET rows == Matching(self)
        off == IF k < 0 THEN 0 ELSE k
    IN  {c \in rows :
            /\ Cardinality({x \in rows : Before(self._ORDER_BY, x, c)}) <= off
            /\ off < Cardinality({x \in rows : ~Before(self._ORDER_BY, c, x)})}

\* A faulty variant, to try the properties on:
\* __getitem__ with OFFSET idx: indexing from 0.
BadCardlist__getitem__(self, idx) ==
    IF RowsAtOffset(self, idx) = {} THEN {Raise("TypeError")}
    ELSE {Card(c) : c \in RowsAtOffset(self, idx)}

\* Cardlist.__getitem__(idx): everything the call can return or raise.
\* fetchone() is None past the last row, and None[0] raises TypeError.
Cardlist__getitem__(self, idx) ==
    IF RowsAtOffset(self, idx - 1) = {} THEN {Raise("TypeError")}
    ELSE {Card(c) : c \in RowsAtOffset(self, idx - 1)}

-----------------------------------------------------------------------------
(* cardlist.py: the bulk mutations, each one INSERT ... SELECT. *)

\* The ids of S in ascending order.
RECURSIVE Ascending(_)
Ascending(S) ==
    IF S = {} THEN <<>>
    ELSE LET m == CHOOSE x \in S : \A y \in S : x <= y
         IN  <<m>> \o Ascending(S \ {m})

\* Cardlist._change_visibility(visibility, date)
Cardlist_change_visibility(self, visibility, date) ==
    IF visibility \notin {"visible", "deleted", "purged"}
    THEN [edits |-> edits, ret |-> Raise("AssertionError")]
    ELSE LET stamp == IF Truthy(date) THEN Num(date) ELSE NOW
             ids == Ascending({c \in Matching(self) :
                        CardsCol(c, "visibility") # StrV(visibility)})
             rows == [i \in DOMAIN ids |->
                        [card_id |-> ids[i], date |-> stamp,
                         cols |-> "visibility" :> StrV(visibility)]]
         IN  [edits |-> edits \o rows, ret |-> IntV(Len(rows))]

\* Cardlist._postpone(n, date)
Cardlist_postpone(self, n, date) ==
    LET stamp == IF Truthy(date) THEN Num(date) ELSE NOW
        ids == Ascending(Matching(self))
        rows == [i \in DOMAIN ids |->
                    [card_id |-> ids[i], date |-> stamp,
                     cols |-> "due_date" :> IntV(Num(CardsCol(ids[i], "due_date")) + n)]]
    IN  [edits |-> edits \o rows, ret |-> IntV(Len(rows))]

\* Cardlist.tag(tag)
Cardlist_tag(self, tag) ==
    LET ids == Ascending(Matching(self))
        rows == [i \in DOMAIN ids |-> [card_id |-> ids[i], tag |-> tag, active |-> 1]]
    IN  [tag_edits |-> tag_edits \o rows, ret |-> IntV(Len(rows))]

\* Cardlist.remove_tag(tag)
Cardlist_remove_tag(self, tag) ==
    LET ids == Ascending(Matching(self))
        rows == [i \in DOMAIN ids |-> [card_id |-> ids[i], tag |-> tag, active |-> 0]]
    IN  [tag_edits |-> tag_edits \o rows, ret |-> IntV(Len(rows))]

-----------------------------------------------------------------------------
(* The inputs the model draws the calls' arguments from. *)

\* (key, value) pairs assigned through Card.__setitem__.
SetInputs ==
    {<<"front_text", StrV("a")>>, <<"due_date", IntV(3)>>,
     <<"front_image", StrV("x")>>, <<"id", IntV(9)>>}

\* The dictionaries passed to Card._update.
UpdateInputs ==
    {"front_text" :> StrV("b"),
     ("front_text" :> StrV("b")) @@ ("due_date" :> IntV(4)),
     "id" :> IntV(9), EmptyDict}

\* The optional date argument: None, or a timestamp of the caller's.
DateInputs == {None, IntV(1)}

\* The keys read through Card.__getitem__.
ReadKeys == {"front_text", "due_date", "visibility", "bogus"}

Visibilities == {"visible", "deleted", "purged"}
Tags == {"verb", "noun"}
Contents == {StrV("x"), StrV("y")}
DueDates == {IntV(3)}

-----------------------------------------------------------------------------
(* The state after construction: an empty store, one Cardlist over it. *)

Procs == {1, 2}

Init ==
    /\ edits = <<>>
    /\ reviews = <<>>
    /\ tag_edits = <<>>
    /\ media = <<>>
    /\ handles = <<>>
    /\ views = <<Cardlist(DefaultConditions, DefaultOrderBy, None)>>
    /\ decks = [view |-> EmptyDict, meta |-> EmptyDict]
    /\ now = 1
    /\ wrote = <<>>
    /\ uploads = {}
    /\ pc = [p \in Procs |-> "idle"]
    /\ loc = [p \in Procs |-> [content |-> None, rowid |-> 0, id |-> None]]
    /\ unique = FALSE

-----------------------------------------------------------------------------
(* The calls on Card objects. *)

\* Card._new_card(cursor)
NewCard ==
    /\ Len(edits) < MaxEdits
    /\ Len(handles) < MaxHandles
    /\ Cardinality(CardIds) < MaxCards
    /\ edits' = Append(edits, [card_id |-> NewCardId, date |-> now, cols |-> EmptyDict])
    /\ handles' = Append(handles, Card(NewCardId))
    /\ wrote' = Append(wrote, EmptyDict)
    /\ UNCHANGED <<reviews, tag_edits, media, views, decks, now, uploads, pc, loc, unique>>

\* Card(card_id, cursor): a further handle on an existing card.
OpenCard(c) ==
    /\ Len(handles) < MaxHandles
    /\ handles' = Append(handles, Card(c))
    /\ wrote' = Append(wrote, EmptyDict)
    /\ UNCHANGED <<edits, reviews, tag_edits, media, views, decks, now, uploads, pc, loc, unique>>

\* card[key] = value
SetItem(h, key, value) ==
    LET r == Card__setitem__(handles[h], key, value)
    IN  /\ Len(edits) < MaxEdits
        /\ Len(r.media) <= MaxMedia
        /\ handles' = [handles EXCEPT ![h]._dict = r._dict]
        /\ edits' = r.edits
        /\ media' = r.media
        /\ wrote' = IF IsExc(r.ret) THEN wrote
                    ELSE [wrote EXCEPT ![h] = DictSet(@, key, value)]
        /\ uploads' = IF key \in _virtual_media_fields /\ ~IsExc(r.ret)
                      THEN uploads \cup {<<value, _upload_media(media, value).id>>}
                      ELSE uploads
        /\ UNCHANGED <<reviews, tag_edits, views, decks, now, pc, loc, unique>>

\* card._update(d, date)
Update(h, d, date) ==
    LET r == Card_update(handles[h], d, date, 0)
    IN  /\ Len(edits) < MaxEdits
        /\ handles' = [handles EXCEPT ![h]._dict = r._dict]
        /\ edits' = r.edits
        /\ wrote' = IF IsExc(r.ret) THEN wrote
                    ELSE [wrote EXCEPT ![h] = DictUpdate(@, d)]
        /\ UNCHANGED <<reviews, tag_edits, media, views, decks, now, uploads, pc, loc, unique>>

\* card[key]
GetItem(h, key) ==
    LET r == Card__getitem__(handles[h], key)
    IN  /\ handles' = [handles EXCEPT ![h]._dict = r._dict]
        /\ UNCHANGED <<edits, reviews, tag_edits, media, views, decks, now, wrote,
                       uploads, pc, loc, unique>>

\* card._change_visibility(visibility, date): _delete, _restore, _purge
CardChangeVisibility(h, visibility, date) ==
    LET r == Card_change_visibility(handles[h], visibility, date)
    IN  /\ Len(edits) < MaxEdits
        /\ edits' = r.edits
        /\ UNCHANGED <<reviews, tag_edits, media, handles, views, decks, now, wrote,
                       uploads, pc, loc, unique>>

\* card._log_review(grade, seconds, new_due_date)
LogReview(h, grade, new_due_date) ==
    /\ Len(reviews) < MaxReviews
    /\ reviews' = Card_log_review(handles[h], grade, 1, new_due_date, None)
    /\ UNCHANGED <<edits, tag_edits, media, handles, views, decks, now, wrote,
                   uploads, pc, loc, unique>>

\* card._schedule(), the scheduler giving new_due_date
Schedule(h, new_due_date) ==
    LET r == Card_schedule(handles[h], new_due_date)
    IN  /\ Len(edits) < MaxEdits
        /\ handles' = [handles EXCEPT ![h]._dict = r._dict]
        /\ edits' = r.edits
        /\ wrote' = [wrote EXCEPT ![h] = DictSet(@, "due_date", new_due_date)]
        /\ UNCHANGED <<reviews, tag_edits, media, views, decks, now, uploads, pc, loc, unique>>

\* card.add_tag(tag)
AddTag(h, tag) ==
    /\ Len(tag_edits) < MaxTagEdits
    /\ tag_edits' = Card_add_tag(handles[h], tag)
    /\ UNCHANGED <<edits, reviews, media, handles, views, decks, now, wrote, uploads,
                   pc, loc, unique>>

\* card.remove_tag(tag)
RemoveTag(h, tag) ==
    /\ Len(tag_edits) < MaxTagEdits
    /\ tag_edits' = Card_remove_tag(handles[h], tag)
    /\ UNCHANGED <<edits, reviews, media, handles, views, decks, now, wrote, uploads,
                   pc, loc, unique>>

\* Card._upload_media(cursor, content), run to its end
UploadMedia(content) ==
    LET r == _upload_media(media, content)
    IN  /\ Len(r.media) <= MaxMedia
        /\ media' = r.media
        /\ uploads' = uploads \cup {<<content, r.id>>}
        /\ UNCHANGED <<edits, reviews, tag_edits, handles, views, decks, now, wrote,
                       pc, loc, unique>>

\* Time passes.
Tick ==
    /\ now < MaxNow
    /\ now' = now + 1
    /\ UNCHANGED <<edits, reviews, tag_edits, media, handles, views, decks,
                   wrote, uploads, pc, loc, unique>>

CardNext ==
    \/ NewCard
    \/ \E c \in CardIds : OpenCard(c)
    \/ \E h \in DOMAIN handles, kv \in SetInputs : SetItem(h, kv[1], kv[2])
    \/ \E h \in DOMAIN handles, d \in UpdateInputs, date \in DateInputs :
            Update(h, d, date)
    \/ \E h \in DOMAIN handles, key \in ReadKeys : GetItem(h, key)
    \/ \E h \in DOMAIN handles, v \in {"deleted", "bogus"}, date \in DateInputs :
            CardChangeVisibility(h, v, date)
    \/ Tick

SpecCard == Init /\ [][CardNext]_vars

-----------------------------------------------------------------------------
(* cardlist.py: deck management. *)

\* Cardlist.drop: DROP VIEW takes effect at once; the DELETE that follows
\* names the deck without quotes, so SQLite reads it as a column: the
\* statement fails unless the deck is called like a column of decks, and
\* then `name = name` holds of every row.
Cardlist_drop(self) ==
    IF self.deck = "cards"
    THEN [decks |-> decks, ret |-> Raise("AssertionError")]
    ELSE IF self.deck \notin DOMAIN decks.view
    THEN [decks |-> decks, ret |-> Raise("OperationalError")]
    ELSE LET dropped == [n \in DOMAIN decks.view \ {self.deck} |-> decks.view[n]]
         IN  IF self.deck = "name"
             THEN [decks |-> [view |-> dropped, meta |-> EmptyDict], ret |-> None]
             ELSE [decks |-> [view |-> dropped, meta |-> decks.meta],
                   ret |-> Raise("OperationalError")]

-----------------------------------------------------------------------------
(* The calls on Cardlist objects. *)

IsList(x) == "_conditions" \in DOMAIN x

NoArgs ==
    [search |-> None, require_parameters |-> TRUE, tag |-> None,
     tags_yes |-> None, tags_no |-> None, created_after |-> None,
     created_before |-> None, due_after |-> None, due_before |-> None,
     deleted |-> None, due |-> None, new |-> None, card_type |-> None,
     images |-> None, audio |-> None, invert |-> FALSE]

\* The keyword arguments passed to filter.
FilterInputs ==
    {NoArgs,
     [NoArgs EXCEPT !.require_parameters = FALSE],
     [NoArgs EXCEPT !.due = BoolV(TRUE)],
     [NoArgs EXCEPT !.new = BoolV(FALSE)],
     [NoArgs EXCEPT !.tag = StrV("verb")],
     [NoArgs EXCEPT !.tag = StrV("verb"), !.invert = TRUE],
     [NoArgs EXCEPT !.tag = StrV("")],
     [NoArgs EXCEPT !.tags_no = ListV({"verb"})],
     [NoArgs EXCEPT !.due_before = IntV(1)],
     [NoArgs EXCEPT !.deleted = BoolV(TRUE), !.invert = TRUE]}

\* The argument sets whose compositions are compared.
CommuteInputs ==
    {NoArgs,
     [NoArgs EXCEPT !.due = BoolV(TRUE)],
     [NoArgs EXCEPT !.new = BoolV(FALSE)],
     [NoArgs EXCEPT !.tag = StrV("verb"), !.invert = TRUE],
     [NoArgs EXCEPT !.tags_no = ListV({"verb"})],
     [NoArgs EXCEPT !.deleted = BoolV(TRUE)]}

\* The criteria passed to sort.
SortInputs == {None, StrV("overdue"), StrV("recent"), StrV("random")}

\* view.filter(**a)
Filter(v, a) ==
    LET r == Cardlist_filter(views[v], a)
    IN  /\ IsList(r.ret) => Len(views) < MaxViews
        /\ views' = IF IsList(r.ret)
                    THEN Append([views EXCEPT ![v] = r.self], r.ret)
                    ELSE [views EXCEPT ![v] = r.self]
        /\ UNCHANGED <<edits, reviews, tag_edits, media, handles, decks, now,
                       wrote, uploads, pc, loc, unique>>

\* view.sort(criterion, reverse=reverse)
Sort(v, criterion, reverse) ==
    LET r == Cardlist_sort(views[v], criterion, reverse)
    IN  /\ IsList(r)
        /\ Len(views) < MaxViews
        /\ views' = Append(views, r)
        /\ UNCHANGED <<edits, reviews, tag_edits, media, handles, decks, now,
                       wrote, uploads, pc, loc, unique>>

\* view[idx]: a Card handle on the row found
ListGetItem(v, idx) ==
    \E r \in Cardlist__getitem__(views[v], idx) :
        /\ ~IsExc(r)
        /\ Len(handles) < MaxHandles
        /\ handles' = Append(handles, r)
        /\ wrote' = Append(wrote, EmptyDict)
        /\ UNCHANGED <<edits, reviews, tag_edits, media, views, decks, now,
                       uploads, pc, loc, unique>>

\* view._change_visibility(visibility, date): _delete, _restore, _purge
ListChangeVisibility(v, visibility, date) ==
    LET r == Cardlist_change_visibility(views[v], visibility, date)
    IN  /\ Len(r.edits) <= MaxEdits
        /\ edits' = r.edits
        /\ UNCHANGED <<reviews, tag_edits, media, handles, views, decks, now,
                       wrote, uploads, pc, loc, unique>>

\* view._postpone(n, date)
ListPostpone(v, n, date) ==
    LET r == Cardlist_postpone(views[v], n, date)
    IN  /\ Len(r.edits) <= MaxEdits
        /\ edits' = r.edits
        /\ UNCHANGED <<reviews, tag_edits, media, handles, views, decks, now,
                       wrote, uploads, pc, loc, unique>>

\* view.tag(tag)
ListTag(v, tag) ==
    LET r == Cardlist_tag(views[v], tag)
    IN  /\ Len(r.tag_edits) <= MaxTagEdits
        /\ tag_edits' = r.tag_edits
        /\ UNCHANGED <<edits, reviews, media, handles, views, decks, now,
                       wrote, uploads, pc, loc, unique>>

\* view.remove_tag(tag)
ListRemoveTag(v, tag) ==
    LET r == Cardlist_remove_tag(views[v], tag)
    IN  /\ Len(r.tag_edits) <= MaxTagEdits
        /\ tag_edits' = r.tag_edits
        /\ UNCHANGED <<edits, reviews, media, handles, views, decks, now,
                       wrote, uploads, pc, loc, unique>>

\* view.drop()
Drop(v) ==
    /\ decks' = Cardlist_drop(views[v]).decks
    /\ UNCHANGED <<edits, reviews, tag_edits, media, handles, views, now,
                   wrote, uploads, pc, loc, unique>>

\* The query builder over a store that cards, due dates and tags fill.
ListNext ==
    \/ NewCard
    \/ \E h \in DOMAIN handles : SetItem(h, "due_date", IntV(3))
    \/ \E h \in DOMAIN handles : AddTag(h, "verb")
    \/ Tick
    \/ \E v \in DOMAIN views, a \in FilterInputs : Filter(v, a)
    \/ \E v \in DOMAIN views, c \in SortInputs, reverse \in BOOLEAN :
            Sort(v, c, reverse)
    \/ \E v \in DOMAIN views, idx \in 1..MaxCards : ListGetItem(v, idx)

SpecList == Init /\ [][ListNext]_vars

\* The store filled with cards, due dates, deletions and tags, and filter.
FilterNext ==
    \/ NewCard
    \/ \E h \in DOMAIN handles : SetItem(h, "due_date", IntV(3))
    \/ \E h \in DOMAIN handles : CardChangeVisibility(h, "deleted", IntV(1))
    \/ \E h \in DOMAIN handles : AddTag(h, "verb")
    \/ Tick
    \/ \E v \in DOMAIN views, a \in CommuteInputs : Filter(v, a)

SpecFilter == Init /\ [][FilterNext]_vars

-----------------------------------------------------------------------------
(* Claims about the Card handle. *)

\* C1: read-after-write on one handle.  For every handle and every key last
\* written through it (item assignment or _update) with value v, the next
\* read of that key through the same handle returns v.
ReadAfterWrite ==
    \A h \in DOMAIN handles : \A k \in DOMAIN wrote[h] :
        Card__getitem__(handles[h], k).ret = wrote[h][k]

\* A handle has written a key, and the view cards now gives that key another
\* value (an edit through another path, or an older timestamp of its own).
ReadAfterWriteWitness ==
    \E h \in DOMAIN handles : \E k \in DOMAIN wrote[h] \cap EditCols :
        CardsCol(handles[h].id, k) # wrote[h][k]

\* The last-appended edit of card c that sets column k.
NewestEdit(c, k) ==
    CHOOSE i \in EditsSetting(c, k) : \A j \in EditsSetting(c, k) : j <= i

\* C2: session-wide cache invalidation.  Once an edit setting k of card c is
\* in the log, a read of k through any handle on c returns the value of the
\* newest such edit.
SessionReadsNewestEdit ==
    \A h \in DOMAIN handles : \A k \in EditCols :
        EditsSetting(handles[h].id, k) # {} =>
            PyEq(Card__getitem__(handles[h], k).ret,
                 edits[NewestEdit(handles[h].id, k)].cols[k])

\* C3: latest event wins.  A read through a fresh handle returns the value
\* of an edit that sets the key and that no other such edit of the card
\* follows (a later timestamp, or the same timestamp and appended later);
\* with no such edit it returns the default.
LatestEventWins ==
    \A c \in CardIds : \A k \in EditCols :
        LET got == Card__getitem__(Card(c), k).ret
            I == EditsSetting(c, k)
        IN  IF I = {}
            THEN CASE k = "due_date" -> PyEq(got, CardsCol(c, "create_date"))
                   [] k = "visibility" -> got = StrV("visible")
                   [] OTHER -> got = None
            ELSE \E i \in I :
                    /\ PyEq(got, edits[i].cols[k])
                    /\ \A j \in I \ {i} :
                          \/ edits[j].date < edits[i].date
                          \/ edits[j].date = edits[i].date /\ j < i

\* Two edits of one card set the same key to different values under the same
\* timestamp, and an edit with an older timestamp follows a newer one.
LatestEventWinsWitness ==
    /\ \E i, j \in DOMAIN edits : \E k \in EditCols :
          /\ i < j /\ edits[i].card_id = edits[j].card_id
          /\ k \in DOMAIN edits[i].cols /\ k \in DOMAIN edits[j].cols
          /\ edits[i].cols[k] # edits[j].cols[k]
          /\ edits[i].date = edits[j].date

-----------------------------------------------------------------------------
(* Claims about the query builder. *)

\* C8: copy-on-write composition.  No filter or sort call changes a view
\* that exists: its condition list, ordering clause, deck and recorded
\* filter parameters are after the call what they were before.
ViewsNeverMutated ==
    [][\A i \in DOMAIN views : views'[i] = views[i]]_vars

\* V.filter(A).filter(B), given what V.filter(A) returned: a call on the
\* usage text, a str, raises.
ThenFilter(first, B) ==
    IF IsList(first) THEN Cardlist_filter(first, B).ret
    ELSE Raise("AttributeError")

-----------------------------------------------------------------------------
(* Tags. *)

TagsNext ==
    \/ NewCard
    \/ \E h \in DOMAIN handles, t \in Tags : AddTag(h, t)
    \/ \E h \in DOMAIN handles, t \in Tags : RemoveTag(h, t)
    \/ \E v \in DOMAIN views, t \in Tags : ListTag(v, t)
    \/ \E v \in DOMAIN views, t \in Tags : ListRemoveTag(v, t)

SpecTags == Init /\ [][TagsNext]_vars

\* The last tag edit of card c for tag t, 0 when there is none.
LastTagEdit(c, t) ==
    LET I == {i \in DOMAIN tag_edits :
                 tag_edits[i].card_id = c /\ tag_edits[i].tag = t}
    IN  IF I = {} THEN 0 ELSE CHOOSE i \in I : \A j \in I : j <= i

\* C7: tag presence follows the last tag event.  Every add_tag and every
\* remove_tag call appends exactly one record, after add_tag the tag is
\* listed by tags() and after remove_tag it is not; in every state tags()
\* lists exactly the tags whose last record for the card is active.
TagFollowsLastEvent ==
    /\ [](\A h \in DOMAIN handles : \A t \in Tags :
            t \in Card_tags(handles[h]) <=>
                /\ LastTagEdit(handles[h].id, t) # 0
                /\ tag_edits[LastTagEdit(handles[h].id, t)].active = 1)
    /\ [][\A h \in DOMAIN handles : \A t \in Tags :
            /\ AddTag(h, t) =>
                /\ Len(tag_edits') = Len(tag_edits) + 1
                /\ SubSeq(tag_edits', 1, Len(tag_edits)) = tag_edits
                /\ t \in Card_tags(handles[h])'
            /\ RemoveTag(h, t) =>
                /\ Len(tag_edits') = Len(tag_edits) + 1
                /\ SubSeq(tag_edits', 1, Len(tag_edits)) = tag_edits
                /\ t \notin Card_tags(handles[h])']_vars

\* add, remove, add of one tag on one card: three records, the tag listed.
TagFollowsLastEventWitness ==
    \E h \in DOMAIN handles : \E t \in Tags :
        /\ Len(tag_edits) = 3
        /\ \A i \in 1..3 : tag_edits[i].card_id = handles[h].id /\ tag_edits[i].tag = t
        /\ tag_edits[1].active = 1 /\ tag_edits[2].active = 0 /\ tag_edits[3].active = 1
        /\ t \in Card_tags(handles[h])

-----------------------------------------------------------------------------
(* Media: uploads made one after another. *)

MediaNext ==
    \/ NewCard
    \/ \E h \in DOMAIN handles, key \in _virtual_media_fields, c \in Contents :
           SetItem(h, key, c)
    \/ \E c \in Contents : UploadMedia(c)

SpecMedia == Init /\ [][MediaNext]_vars

\* C5: of the uploads made one after another on one store, two of equal
\* content returned the same id, two of different content returned
\* different ids, and media holds at most one row for any content.
MediaDedup ==
    /\ \A u1 \in uploads, u2 \in uploads : (u1[1] = u2[1]) <=> (u1[2] = u2[2])
    /\ \A i \in DOMAIN media, j \in DOMAIN media :
           media[i].content = media[j].content => i = j

\* Content was uploaded, uploaded again through an attribute write (two
\* edits carry the same media id), and a different content was uploaded.
MediaDedupWitness ==
    /\ Cardinality(uploads) = 2
    /\ Len(media) = 2
    /\ \E i \in DOMAIN edits, j \in DOMAIN edits :
           /\ i # j
           /\ "front_image_id" \in DOMAIN edits[i].cols
           /\ "front_image_id" \in DOMAIN edits[j].cols
           /\ edits[i].cols["front_image_id"] = edits[j].cols["front_image_id"]

-----------------------------------------------------------------------------
(* Media: card.py, Card._upload_media called by two processes that share   *)
(* the store, one statement at a time.  Each process has its own           *)
(* connection: the INSERT opens its transaction and takes the database's   *)
(* write lock, which commit() releases; until then the new row is seen by  *)
(* the inserting process alone.  The schema is not in the sources: a       *)
(* behaviour starts with content UNIQUE or not.                            *)

InitUpload ==
    /\ edits = <<>>
    /\ reviews = <<>>
    /\ tag_edits = <<>>
    /\ media = <<>>
    /\ handles = <<>>
    /\ views = <<Cardlist(DefaultConditions, DefaultOrderBy, None)>>
    /\ decks = [view |-> EmptyDict, meta |-> EmptyDict]
    /\ now = 1
    /\ wrote = <<>>
    /\ uploads = {}
    /\ pc = [p \in Procs |-> "idle"]
    /\ loc = [p \in Procs |-> [content |-> None, rowid |-> 0, id |-> None]]
    /\ unique \in BOOLEAN

\* The process is inside its transaction.  A failed INSERT leaves the
\* transaction open: _upload_media has no rollback.
HoldsLock(q) ==
    \/ pc[q] \in {"readback", "commit"}
    \/ pc[q] = "failed" /\ loc[q].id = Raise("IntegrityError")

\* The rows process p reads: the committed ones and its own.
Visible(p) ==
    LET hidden == {loc[q].rowid : q \in {r \in Procs \ {p} : pc[r] \in {"readback", "commit"}}}
    IN  SelectSeq(media, LAMBDA row : row.id \notin hidden)

\* Card._upload_media(cursor, content) is called.
Call(p, content) ==
    /\ pc[p] = "idle"
    /\ pc' = [pc EXCEPT ![p] = "lookup"]
    /\ loc' = [loc EXCEPT ![p] = [content |-> content, rowid |-> 0, id |-> None]]
    /\ UNCHANGED <<edits, reviews, tag_edits, media, handles, views, decks, now,
                   wrote, uploads, unique>>

\* SELECT id FROM media WHERE content = ?; fetchone(); return if found
Lookup(p) ==
    LET found == MediaIdsOf(Visible(p), loc[p].content)
    IN  /\ pc[p] = "lookup"
        /\ IF found # {}
           THEN \E i \in found :
                    /\ pc' = [pc EXCEPT ![p] = "done"]
                    /\ loc' = [loc EXCEPT ![p].id = IntV(i)]
                    /\ uploads' = uploads \cup {<<loc[p].content, i>>}
           ELSE /\ pc' = [pc EXCEPT ![p] = "insert"]
                /\ UNCHANGED <<loc, uploads>>
        /\ UNCHANGED <<edits, reviews, tag_edits, media, handles, views, decks, now,
                       wrote, unique>>

\* INSERT INTO media (content) VALUES (?), the write lock being free
Insert(p) ==
    /\ pc[p] = "insert"
    /\ \A q \in Procs \ {p} : ~HoldsLock(q)
    /\ IF unique /\ MediaIdsOf(media, loc[p].content) # {}
       THEN /\ pc' = [pc EXCEPT ![p] = "failed"]
            /\ loc' = [loc EXCEPT ![p].id = Raise("IntegrityError")]
            /\ UNCHANGED media
       ELSE /\ Len(media) < MaxMedia
            /\ media' = Append(media, [id |-> NewMediaId(media),
                                       content |-> loc[p].content])
            /\ pc' = [pc EXCEPT ![p] = "readback"]
            /\ loc' = [loc EXCEPT ![p].rowid = NewMediaId(media)]
    /\ UNCHANGED <<edits, reviews, tag_edits, handles, views, decks, now, wrote,
                   uploads, unique>>

\* INSERT INTO media, the write lock being held until the connection's
\* timeout has passed: sqlite3 raises `database is locked`.
InsertBusy(p) ==
    /\ pc[p] = "insert"
    /\ \E q \in Procs \ {p} : HoldsLock(q)
    /\ pc' = [pc EXCEPT ![p] = "failed"]
    /\ loc' = [loc EXCEPT ![p].id = Raise("OperationalError")]
    /\ UNCHANGED <<edits, reviews, tag_edits, media, handles, views, decks, now,
                   wrote, uploads, unique>>

\* SELECT id FROM media WHERE rowid = last_insert_rowid()
ReadBack(p) ==
    /\ pc[p] = "readback"
    /\ pc' = [pc EXCEPT ![p] = "commit"]
    /\ loc' = [loc EXCEPT ![p].id = IntV(loc[p].rowid)]
    /\ UNCHANGED <<edits, reviews, tag_edits, media, handles, views, decks, now,
                   wrote, uploads, unique>>

\* commit(); media_id = fetchone()[0]; return media_id
Commit(p) ==
    /\ pc[p] = "commit"
    /\ pc' = [pc EXCEPT ![p] = "done"]
    /\ uploads' = uploads \cup {<<loc[p].content, loc[p].rowid>>}
    /\ UNCHANGED <<edits, reviews, tag_edits, media, handles, views, decks, now,
                   wrote, loc, unique>>

\* The caller has the id and may call again.
Return(p) ==
    /\ pc[p] = "done"
    /\ pc' = [pc EXCEPT ![p] = "idle"]
    /\ UNCHANGED <<edits, reviews, tag_edits, media, handles, views, decks, now,
                   wrote, uploads, loc, unique>>

UploadNext ==
    \/ \E p \in Procs, c \in Contents : Call(p, c)
    \/ \E p \in Procs : Lookup(p)
    \/ \E p \in Procs : Insert(p)
    \/ \E p \in Procs : InsertBusy(p)
    \/ \E p \in Procs : ReadBack(p)
    \/ \E p \in Procs : Commit(p)
    \/ \E p \in Procs : Return(p)

SpecUpload == InitUpload /\ [][UploadNext]_vars

\* C6: two processes that uploaded identical content both have the same id
\* (neither call failed on the content), and media holds one row for it.
ConcurrentMediaDedup ==
    /\ \A p \in Procs : loc[p].id # Raise("IntegrityError")
    /\ \A p \in Procs, q \in Procs :
           pc[p] = "done" /\ pc[q] = "done" /\ loc[p].content = loc[q].content
               => loc[p].id = loc[q].id
    /\ \A i \in DOMAIN media, j \in DOMAIN media :
           media[i].content = media[j].content => i = j

-----------------------------------------------------------------------------
(* Every operation of Card and Cardlist, over a store that holds a deck. *)

\* The deck `verbs`, made from the view filtered by tag.
VerbsDeck ==
    [view |-> "verbs" :> (DefaultConditions \o <<Cond("tag", StrV("verb"))>>),
     meta |-> "verbs" :> [NoArgs EXCEPT !.tag = StrV("verb")]]

InitDeck ==
    /\ edits = <<>>
    /\ reviews = <<>>
    /\ tag_edits = <<>>
    /\ media = <<>>
    /\ handles = <<>>
    /\ views = <<Cardlist(DefaultConditions, DefaultOrderBy, None)>>
    /\ decks = VerbsDeck
    /\ now = 1
    /\ wrote = <<>>
    /\ uploads = {}
    /\ pc = [p \in Procs |-> "idle"]
    /\ loc = [p \in Procs |-> [content |-> None, rowid |-> 0, id |-> None]]
    /\ unique = FALSE

\* Cardlist(cursor, deck=name): a view over a deck
OpenDeck(name) ==
    /\ Len(views) < MaxViews
    /\ views' = Append(views, Cardlist(DefaultConditions, DefaultOrderBy, StrV(name)))
    /\ UNCHANGED <<edits, reviews, tag_edits, media, handles, decks, now,
                   wrote, uploads, pc, loc, unique>>

\* The rows and objects in existence.
Total ==
    Len(edits) + Len(reviews) + Len(tag_edits) + Len(media) + Len(handles)
    + Len(views)

\* A further call is made only while the store and the session are small.
Room == Total < MaxTotal

Next ==
    \/ Room /\ NewCard
    \/ \E h \in DOMAIN handles : Room /\ SetItem(h, "front_image", StrV("x"))
    \/ \E h \in DOMAIN handles : Room /\ Update(h, "front_text" :> StrV("b"), None)
    \/ \E h \in DOMAIN handles : Room /\ GetItem(h, "front_text")
    \/ \E h \in DOMAIN handles : Room /\ CardChangeVisibility(h, "deleted", IntV(1))
    \/ \E h \in DOMAIN handles : Room /\ LogReview(h, 3, IntV(3))
    \/ \E h \in DOMAIN handles : Room /\ Schedule(h, IntV(3))
    \/ \E h \in DOMAIN handles : Room /\ AddTag(h, "verb")
    \/ \E h \in DOMAIN handles : Room /\ RemoveTag(h, "verb")
    \/ Room /\ UploadMedia(StrV("y"))
    \/ Room /\ Tick
    \/ \E v \in DOMAIN views : Room /\ Filter(v, [NoArgs EXCEPT !.due = BoolV(TRUE)])
    \/ \E v \in DOMAIN views : Room /\ Sort(v, StrV("overdue"), FALSE)
    \/ \E v \in DOMAIN views : Room /\ ListGetItem(v, 1)
    \/ \E v \in DOMAIN views : Room /\ ListChangeVisibility(v, "deleted", None)
    \/ \E v \in DOMAIN views : Room /\ ListPostpone(v, 1, None)
    \/ \E v \in DOMAIN views : Room /\ ListTag(v, "verb")
    \/ \E v \in DOMAIN views : Room /\ ListRemoveTag(v, "verb")
    \/ \E n \in DOMAIN decks.view : Room /\ OpenDeck(n)
    \/ \E v \in DOMAIN views : Room /\ Drop(v)

Spec == InitDeck /\ [][Next]_vars

IsPrefix(s, t) == Len(s) <= Len(t) /\ SubSeq(t, 1, Len(s)) = s

\* C4: append-only event log.  Across every operation each of the streams
\* edits, reviews and tag_edits keeps what it held as a prefix of what it
\* holds afterwards.
AppendOnly ==
    [][/\ IsPrefix(edits, edits')
       /\ IsPrefix(reviews, reviews')
       /\ IsPrefix(tag_edits, tag_edits')]_vars

\* All three streams hold records, a deck has been dropped, and edits holds
\* more rows than the single-card calls alone were let to write.
AppendOnlyWitness ==
    /\ Len(edits) >= 2
    /\ Len(reviews) >= 1
    /\ Len(tag_edits) >= 2
    /\ DOMAIN decks.view = {}

-----------------------------------------------------------------------------
(* Visibility changes that change nothing. *)

\* The matching cards of a view whose visibility is not the target.
Differing(self, visibility) ==
    {c \in Matching(self) : CardsCol(c, "visibility") # StrV(visibility)}

\* C11: a no-op visibility change appends nothing.  Setting a card's
\* visibility to the one it has, through Card._change_visibility with or
\* without a date, leaves the length of edits as it is; the bulk change on a
\* view appends one edit for each matching card whose visibility differs
\* from the target, and returns their number.
NoOpVisibilityAppendsNothing ==
    /\ \A h \in DOMAIN handles, visibility \in Visibilities, date \in DateInputs :
           CardsCol(handles[h].id, "visibility") = StrV(visibility)
               => Len(Card_change_visibility(handles[h], visibility, date).edits)
                      = Len(edits)
    /\ \A v \in DOMAIN views, visibility \in Visibilities, date \in DateInputs :
           LET r == Cardlist_change_visibility(views[v], visibility, date)
           IN  /\ Len(r.edits) = Len(edits) + Cardinality(Differing(views[v], visibility))
               /\ r.ret = IntV(Cardinality(Differing(views[v], visibility)))

-----------------------------------------------------------------------------
(* Bulk tag mutations that change nothing. *)

\* The matching cards of a view that carry the tag, and those that do not.
Tagged(self, tag) == {c \in Matching(self) : tag \in TagsView(c)}
Untagged(self, tag) == {c \in Matching(self) : tag \notin TagsView(c)}

\* C12: bulk tag mutations skip no-op writes.  Cardlist.tag appends records
\* for the matching cards without the tag only, Cardlist.remove_tag for the
\* matching cards with the tag only, and each returns the number of records
\* it appended.
BulkTagSkipsNoOps ==
    \A v \in DOMAIN views, tag \in Tags :
        LET t == Cardlist_tag(views[v], tag)
            r == Cardlist_remove_tag(views[v], tag)
        IN  /\ Len(t.tag_edits) = Len(tag_edits) + Cardinality(Untagged(views[v], tag))
            /\ t.ret = IntV(Len(t.tag_edits) - Len(tag_edits))
            /\ Len(r.tag_edits) = Len(tag_edits) + Cardinality(Tagged(views[v], tag))
            /\ r.ret = IntV(Len(r.tag_edits) - Len(tag_edits))

-----------------------------------------------------------------------------
(* cardlist.py: a bulk mutation, one row at a time.  Each is one statement *)
(* INSERT ... SELECT followed by commit().  The statement opens the        *)
(* connection's transaction and takes the write lock; the rows it has      *)
(* written are the connection's own until the commit; a statement that     *)
(* fails (disk full, I/O error, interrupt) is undone by SQLite and the     *)
(* exception leaves the method before commit().                            *)

BulkOps == {"visibility", "postpone", "tag", "remove_tag"}

\* The table the statement inserts into.
BulkTable(op) == IF op \in {"visibility", "postpone"} THEN "edits" ELSE "tag_edits"

\* The rows a bulk call appends to table T, given the table it returns.
Appended(T, after) == SubSeq(after, Len(T) + 1, Len(after))

\* The rows the statement's SELECT yields for view self: the batch.
BulkBatch(self, op) ==
    IF op = "visibility"
    THEN Appended(edits, Cardlist_change_visibility(self, "deleted", None).edits)
    ELSE IF op = "postpone"
    THEN Appended(edits, Cardlist_postpone(self, 1, None).edits)
    ELSE IF op = "tag"
    THEN Appended(tag_edits, Cardlist_tag(self, "verb").tag_edits)
    ELSE Appended(tag_edits, Cardlist_remove_tag(self, "verb").tag_edits)

\* A faulty variant, to try the properties on:
\* every row is committed as it is written.
BadUncommitted(T, row) == Append(T, row)

\* The table as other connections read it once `row` has been written
\* inside a transaction that is still open.
Uncommitted(T, row) == T

\* The process holds the write lock: its statement is running, or has failed
\* and left the transaction open.
InBulk(q) == pc[q] \in {"bulk-run", "bulk-failed"}

\* No transaction is open.
Quiet == \A q \in Procs : ~InBulk(q)

\* execute('INSERT INTO ... SELECT ...') starts.
BulkBegin(p, v, op) ==
    \E batch \in {BulkBatch(views[v], op)} :
        /\ pc[p] = "idle"
        /\ Quiet
        /\ IF BulkTable(op) = "edits"
           THEN Len(edits) + Len(batch) <= MaxEdits
           ELSE Len(tag_edits) + Len(batch) <= MaxTagEdits
        /\ pc' = [pc EXCEPT ![p] = "bulk-run"]
        /\ loc' = [loc EXCEPT ![p] = [op |-> op, batch |-> batch, todo |-> batch,
                                      rows |-> <<>>, ret |-> None]]
        /\ UNCHANGED <<edits, reviews, tag_edits, media, handles, views, decks,
                       now, wrote, uploads, unique>>

\* The statement writes its next row.
BulkRow(p) ==
    /\ pc[p] = "bulk-run"
    /\ loc[p].todo # <<>>
    /\ loc' = [loc EXCEPT ![p].todo = Tail(@),
                          ![p].rows = Append(@, Head(loc[p].todo))]
    /\ IF BulkTable(loc[p].op) = "edits"
       THEN /\ edits' = Uncommitted(edits, Head(loc[p].todo))
            /\ UNCHANGED tag_edits
       ELSE /\ tag_edits' = Uncommitted(tag_edits, Head(loc[p].todo))
            /\ UNCHANGED edits
    /\ UNCHANGED <<reviews, media, handles, views, decks, now, wrote, uploads,
                   pc, unique>>

\* The statement fails: SQLite takes back the rows it wrote, execute raises.
BulkFail(p) ==
    /\ pc[p] = "bulk-run"
    /\ pc' = [pc EXCEPT ![p] = "bulk-failed"]
    /\ loc' = [loc EXCEPT ![p].rows = <<>>, ![p].ret = Raise("OperationalError")]
    /\ UNCHANGED <<edits, reviews, tag_edits, media, handles, views, decks, now,
                   wrote, uploads, unique>>

\* The statement is through: commit(); return self._cursor.rowcount
BulkCommit(p) ==
    /\ pc[p] = "bulk-run"
    /\ loc[p].todo = <<>>
    /\ pc' = [pc EXCEPT ![p] = "bulk-done"]
    /\ loc' = [loc EXCEPT ![p].ret = IntV(Len(loc[p].rows))]
    /\ IF BulkTable(loc[p].op) = "edits"
       THEN /\ edits' = edits \o loc[p].rows
            /\ UNCHANGED tag_edits
       ELSE /\ tag_edits' = tag_edits \o loc[p].rows
            /\ UNCHANGED edits
    /\ UNCHANGED <<reviews, media, handles, views, decks, now, wrote, uploads,
                   unique>>

\* The caller has the count, or has dealt with the exception and rolled back.
BulkReturn(p) ==
    /\ pc[p] \in {"bulk-done", "bulk-failed"}
    /\ pc' = [pc EXCEPT ![p] = "idle"]
    /\ loc' = [loc EXCEPT ![p] = [content |-> None, rowid |-> 0, id |-> None]]
    /\ UNCHANGED <<edits, reviews, tag_edits, media, handles, views, decks, now,
                   wrote, uploads, unique>>

BulkNext ==
    \/ Quiet /\ NewCard
    \/ \E h \in DOMAIN handles : Quiet /\ AddTag(h, "verb")
    \/ \E h \in DOMAIN handles : Quiet /\ CardChangeVisibility(h, "deleted", IntV(1))
    \/ \E p \in Procs, v \in DOMAIN views, op \in BulkOps : BulkBegin(p, v, op)
    \/ \E p \in Procs : BulkRow(p)
    \/ \E p \in Procs : BulkFail(p)
    \/ \E p \in Procs : BulkCommit(p)
    \/ \E p \in Procs : BulkReturn(p)

SpecBulk == Init /\ [][BulkNext]_vars

\* The tables a reader of the store sees.
Seen == <<edits, reviews, tag_edits>>

-----------------------------------------------------------------------------
(* The safety rail of filter. *)

\* The call supplies no predicate that adds a condition.
NoEffectivePredicate(a) ==
    \A i \in DOMAIN ParametersConditions(a) :
        ~Supplied(ParametersConditions(a)[i][1])

\* C14: safety rail against unfiltered queries.  A filter call that requires
\* parameters and supplies no effective predicate (nothing, or only '' or
\* 'any') returns the usage text, and no call that requires parameters
\* returns a view with the condition list of the view it was made on.
FilterSafetyRail ==
    \A v \in DOMAIN views, a \in FilterInputs :
        a.require_parameters =>
            LET r == Cardlist_filter(views[v], a).ret
            IN  /\ NoEffectivePredicate(a) => r = FilterUsage
                /\ IsList(r) => r._conditions # views[v]._conditions

-----------------------------------------------------------------------------
(* Write validation. *)

\* Keys that must not be written: id, a derived field, an unknown name.
RejectedKeys == {"id", "create_date", "bogus"}

\* C15: write validation.  A write of id, or of a key outside the editable
\* fields, through item assignment or _update fails and leaves edits and the
\* handle's _dict as they were; an _update of editable fields, not empty,
\* appends one edit that carries every field given.
WritesValidated ==
    \A h \in DOMAIN handles :
        /\ \A key \in RejectedKeys :
               LET r == Card__setitem__(handles[h], key, IntV(5))
               IN  IsExc(r.ret) /\ r.edits = edits /\ r._dict = handles[h]._dict
        /\ \A d \in UpdateInputs, date \in DateInputs :
               LET r == Card_update(handles[h], d, date, 0)
               IN  IF \E k \in DOMAIN d : k \notin _editable_fields
                   THEN IsExc(r.ret) /\ r.edits = edits /\ r._dict = handles[h]._dict
                   ELSE DOMAIN d # {} =>
                            /\ Len(r.edits) = Len(edits) + 1
                            /\ SubSeq(r.edits, 1, Len(edits)) = edits
                            /\ r.edits[Len(r.edits)].card_id = handles[h].id
                            /\ r.edits[Len(r.edits)].cols = d

-----------------------------------------------------------------------------
(* New cards and their first review. *)

Reviewed(c) == \E i \in DOMAIN reviews : reviews[i].card_id = c

\* The due dates the scheduler can give after a review: the scheduler is
\* not part of this package; it advances the due date past the review.
Advanced == {IntV(n) : n \in (now + 1)..(MaxNow + 1)}

\* Cards are made, reviewed and then scheduled, and time passes.
ReviewNext ==
    \/ NewCard
    \/ \E c \in CardIds : OpenCard(c)
    \/ \E h \in DOMAIN handles, d \in Advanced : LogReview(h, 3, d)
    \/ \E h \in DOMAIN handles, d \in Advanced :
          Reviewed(handles[h].id) /\ Schedule(h, d)
    \/ Tick
    \/ \E v \in DOMAIN views :
          Filter(v, [NoArgs EXCEPT !.new = BoolV(TRUE)])

SpecReview == Init /\ [][ReviewNext]_vars

\* The cards filter(new=True) and filter(due=True) match, called now on the
\* view of all cards.
NewCards == Matching(Cardlist_filter(Cardlist(DefaultConditions, DefaultOrderBy, None),
                                     [NoArgs EXCEPT !.new = BoolV(TRUE)]).ret)
DueCards == Matching(Cardlist_filter(Cardlist(DefaultConditions, DefaultOrderBy, None),
                                     [NoArgs EXCEPT !.due = BoolV(TRUE)]).ret)

\* C16: a card is new until its first scheduled review.  A card no due date
\* was written for has due_date = create_date and is matched by
\* filter(new=True); a reviewed card whose persisted due date lies after now
\* is matched by neither filter(new=True) nor filter(due=True).  Logging a
\* review appends one review record, and _schedule appends one edit that
\* sets due_date, after which the card is no longer new.
NewUntilReviewed ==
    /\ [](\A c \in CardIds :
            /\ EditsSetting(c, "due_date") = {} =>
                   /\ CardsCol(c, "due_date") = CardsCol(c, "create_date")
                   /\ c \in NewCards
            /\ (/\ Reviewed(c)
                /\ EditsSetting(c, "due_date") # {}
                /\ Num(CardsCol(c, "due_date")) > now) =>
                   c \notin NewCards /\ c \notin DueCards)
    /\ [][\A h \in DOMAIN handles, d \in Advanced :
            /\ LogReview(h, 3, d) =>
                   /\ Len(reviews') = Len(reviews) + 1
                   /\ SubSeq(reviews', 1, Len(reviews)) = reviews
                   /\ reviews'[Len(reviews')].card_id = handles[h].id
                   /\ edits' = edits
            /\ Schedule(h, d) =>
                   /\ Len(edits') = Len(edits) + 1
                   /\ SubSeq(edits', 1, Len(edits)) = edits
                   /\ edits'[Len(edits')].card_id = handles[h].id
                   /\ edits'[Len(edits')].cols = ("due_date" :> d)
                   /\ reviews' = reviews
                   /\ (handles[h].id \notin NewCards)']_vars

\* One card has been reviewed and scheduled and is not due yet; another is
\* still new.
NewUntilReviewedWitness ==
    \E c \in CardIds, n \in CardIds :
        /\ Reviewed(c)
        /\ EditsSetting(c, "due_date") # {}
        /\ Num(CardsCol(c, "due_date")) > now
        /\ EditsSetting(n, "due_date") = {}
        /\ n \in NewCards

-----------------------------------------------------------------------------
(* Dropping a deck. *)

\* d without the key k.
Without(d, k) == [n \in DOMAIN d \ {k} |-> d[n]]

\* C17: deck drop.  drop on a view of the base collection `cards` fails and
\* leaves the decks as they are; drop on a view of another deck succeeds,
\* removes that deck's SQL view and its row of the decks table, and leaves
\* every other deck as it is.
DropRemovesDeck ==
    \A v \in DOMAIN views :
        LET r == Cardlist_drop(views[v])
            deck == views[v].deck
        IN  IF deck = "cards"
            THEN IsExc(r.ret) /\ r.decks = decks
            ELSE deck \in DOMAIN decks.view =>
                     /\ ~IsExc(r.ret)
                     /\ r.decks.view = Without(decks.view, deck)
                     /\ r.decks.meta = Without(decks.meta, deck)

-----------------------------------------------------------------------------
(* Virtual media fields. *)

\* The content of the media row with the given id: what a read of the
\* virtual field is to give.
ContentOf(id) ==
    IF \E i \in DOMAIN media : media[i].id = id
    THEN media[CHOOSE i \in DOMAIN media : media[i].id = id].content
    ELSE None

\* C18: virtual media round trip.  Setting a virtual media field m of a card
\* to content x appends one edit whose only column is m_id, holding the media
\* id of x; a fresh handle on a card reads m as the content its m_id refers
\* to, and as None, without error, when m_id is absent.
MediaRoundTrip ==
    /\ \A h \in DOMAIN handles, m \in _virtual_media_fields, x \in Contents :
           LET r == Card__setitem__(handles[h], m, x)
           IN  /\ Len(r.edits) = Len(edits) + 1
               /\ SubSeq(r.edits, 1, Len(edits)) = edits
               /\ r.edits[Len(r.edits)].cols
                      = (IdFieldOf(m) :> IntV(_upload_media(media, x).id))
    /\ \A c \in CardIds, m \in _virtual_media_fields :
           LET id == CardsCol(c, IdFieldOf(m))
               r == Card__getitem__(Card(c), m).ret
           IN  IF IsNone(id) THEN r = None ELSE r = ContentOf(id.int)

-----------------------------------------------------------------------------
(* Filtering by tags. *)

\* The tag lists passed as tags_no.
TagSets == (SUBSET Tags) \ {{}}

\* C19: tags_no means none of the set.  For every view, every tag list S and
\* every card of the view, filter(tags_no=S) matches the card exactly when
\* no tag of S is on it.
TagsNoMeansNone ==
    \A v \in DOMAIN views, S \in TagSets :
        LET r == Cardlist_filter(views[v], [NoArgs EXCEPT !.tags_no = ListV(S)]).ret
        IN  \A c \in Matching(views[v]) :
                c \in Matching(r) <=> TagsView(c) \cap S = {}

-----------------------------------------------------------------------------
(* The due boundary. *)

\* C20: the due boundary is inclusive and consistent.  filter(due=True)
\* matches a card exactly when its due_date is at most now, and its verdict
\* is the card's is_due taken at the same instant.
DueBoundaryInclusive ==
    \A c \in Matching(Cardlist(DefaultConditions, DefaultOrderBy, None)) :
        /\ c \in DueCards <=> Num(CardsCol(c, "due_date")) <= now
        /\ Card_is_due(Card(c)).ret = BoolV(c \in DueCards)

-----------------------------------------------------------------------------
(* Views derived from a view over a deck. *)

\* The views V.filter(due=True) and V.sort('overdue') return.
Derived(V) ==
    {Cardlist_filter(V, [NoArgs EXCEPT !.due = BoolV(TRUE)]).ret,
     Cardlist_sort(V, StrV("overdue"), FALSE)}

\* C21: a derived view keeps its deck.  For every view V over a named deck,
\* the views V.filter(...) and V.sort(...) return have V's deck, and the
\* cards they select are rows of that deck.
DerivedKeepsDeck ==
    \A v \in DOMAIN views :
        views[v].deck # "cards" =>
            \A W \in Derived(views[v]) :
                IsList(W) =>
                    /\ W.deck = views[v].deck
                    /\ Matching(W) \subseteq DeckRows(views[v].deck)

====
